---- MODULE Spec2Model ----
(***************************************************************************)
(* vault-config-updater: the textual substitution of vaultToken fields     *)
(* (config_updater.rs), the atomic per-file update built on it, and the    *)
(* batch coordinators (main.rs update_files_parallel and                   *)
(* scan_files_parallel, config_updater.rs update_vault_tokens_in_files),   *)
(* and the directory walk that finds the candidates (file_scanner.rs       *)
(* find_config_files).                                                     *)
(*                                                                         *)
(* Text is a sequence of symbols.  Every symbol is one character, except   *)
(* "vaultToken", which stands for that run of ten letters.  The alphabet   *)
(* holds no braces, so the braced form of a capture reference does not     *)
(* occur in a replacement template.                                        *)
(***************************************************************************)
EXTENDS Integers, Sequences, FiniteSets, TLC

\* ------------------------------------------------------------------ bounds
\* Longest content of the text specification, counted in pieces.
MaxPieces == 3
\* Longest candidate list of a batch.
MaxFiles == 2
\* Short writes (a write call that takes only part of the buffer) per file.
MaxShortWrites == 1

\* ------------------------------------------------------------------- text
Q == "\""
KEY == "vaultToken"

\* \s of the pattern.
IsSpace(ch) == ch \in {" ", "\n"}

\* [0-9A-Za-z_]: the characters of a capture-group name in a template.
IsWordChar(ch) == ch \in {"0", "a", "b", "n", KEY}

RECURSIVE Flatten(_)
Flatten(ss) == IF ss = <<>> THEN <<>> ELSE Head(ss) \o Flatten(Tail(ss))

RECURSIVE SkipSpace(_, _)
\* The first index >= i of s that holds no whitespace (Len(s)+1 if none): how
\* the greedy \s* advances.
SkipSpace(s, i) ==
    IF i <= Len(s) /\ IsSpace(s[i]) THEN SkipSpace(s, i + 1) ELSE i

RECURSIVE SkipNonQuote(_, _)
\* The same for [^"]*.
SkipNonQuote(s, i) ==
    IF i <= Len(s) /\ s[i] # Q THEN SkipNonQuote(s, i + 1) ELSE i

RECURSIVE SkipWord(_, _)
\* The same for the name of a capture reference.
SkipWord(s, i) ==
    IF i <= Len(s) /\ IsWordChar(s[i]) THEN SkipWord(s, i + 1) ELSE i

\* "vaultToken"\s*:\s*"[^"]*" anchored at i: the index of the closing quote,
\* or 0 when the pattern does not match at i.
MatchEnd(s, i) ==
    IF i + 2 <= Len(s) /\ s[i] = Q /\ s[i + 1] = KEY /\ s[i + 2] = Q
    THEN LET c == SkipSpace(s, i + 3) IN
         IF c <= Len(s) /\ s[c] = ":"
         THEN LET q == SkipSpace(s, c + 1) IN
              IF q <= Len(s) /\ s[q] = Q
              THEN LET e == SkipNonQuote(s, q + 1) IN
                   IF e <= Len(s) THEN e ELSE 0
              ELSE 0
         ELSE 0
    ELSE 0

\* format!(r#""vaultToken": "{}""#, new_token)
Replacement(new_token) == <<Q, KEY, Q, ":", " ", Q>> \o new_token \o <<Q>>

AllZero(name) == \A k \in 1..Len(name) : name[k] = "0"

RECURSIVE Expand(_, _, _)
\* The regex crate's expansion of a replacement template (a &str Replacer):
\* $$ is a dollar sign, $name is the capture group of that name or number
\* (the name is the longest run of word characters), a group that does not
\* exist is the empty string, and any other $ stands for itself.  The pattern
\* has no group but group 0, the whole match m.
Expand(rep, i, m) ==
    IF i > Len(rep) THEN <<>>
    ELSE IF rep[i] # "$" THEN <<rep[i]>> \o Expand(rep, i + 1, m)
    ELSE IF i + 1 <= Len(rep) /\ rep[i + 1] = "$"
         THEN <<"$">> \o Expand(rep, i + 2, m)
    ELSE LET e == SkipWord(rep, i + 1) IN
         IF e = i + 1 THEN <<"$">> \o Expand(rep, i + 1, m)
         ELSE (IF AllZero(SubSeq(rep, i + 1, e - 1)) THEN m ELSE <<>>)
              \o Expand(rep, e, m)

\* What one match m is replaced by.
ReplaceMatch(rep, m) == Expand(rep, 1, m)

RECURSIVE ReplaceFirstFrom(_, _, _)
\* Faulty variant of ReplaceFrom: Regex::replace, which stops after the first match.
ReplaceFirstFrom(s, i, rep) ==
    IF i > Len(s) THEN <<>>
    ELSE LET e == MatchEnd(s, i) IN
         IF e > 0
         THEN ReplaceMatch(rep, SubSeq(s, i, e)) \o SubSeq(s, e + 1, Len(s))
         ELSE <<s[i]>> \o ReplaceFirstFrom(s, i + 1, rep)

RECURSIVE ReplaceFrom(_, _, _)
\* Regex::replace_all: the leftmost matches, left to right, none overlapping;
\* the text between them is copied.
ReplaceFrom(s, i, rep) ==
    IF i > Len(s) THEN <<>>
    ELSE LET e == MatchEnd(s, i) IN
         IF e > 0
         THEN ReplaceMatch(rep, SubSeq(s, i, e)) \o ReplaceFrom(s, e + 1, rep)
         ELSE <<s[i]>> \o ReplaceFrom(s, i + 1, rep)

update_vault_token(json_content, new_token) ==
    ReplaceFrom(json_content, 1, Replacement(new_token))

RECURSIVE CountFrom(_, _, _)
\* str::matches(pat).count(): the occurrences of the literal pat, left to
\* right, none overlapping.
CountFrom(s, i, pat) ==
    IF i + Len(pat) - 1 > Len(s) THEN 0
    ELSE IF SubSeq(s, i, i + Len(pat) - 1) = pat
         THEN 1 + CountFrom(s, i + Len(pat), pat)
         ELSE CountFrom(s, i + 1, pat)

\* content.matches(&format!(r#""vaultToken": "{}""#, token)).count()
token_count(content, tok) == CountFrom(content, 1, Replacement(tok))

\* ------------------------------------------------------------------ paths
Path(dir, stem, ext) == [dir |-> dir, stem |-> stem, ext |-> ext]

ConfigJson == Path("app", "config", "json")
GlobalConfigJson == Path("app", "globalConfig", "json")
ConfigTmp == Path("app", "config", "tmp")
GlobalConfigTmp == Path("app", "globalConfig", "tmp")

PathOrder == <<ConfigJson, GlobalConfigJson, ConfigTmp, GlobalConfigTmp>>
Paths == {PathOrder[k] : k \in 1..Len(PathOrder)}

\* Faulty variant of with_extension: the path itself, so the new content is written in
\* place.
with_extension_same(path, ext) == path

\* Path::with_extension: the extension is replaced, not appended.
with_extension(path, ext) == [path EXCEPT !.ext = ext]

\* let temp_path = path.with_extension("tmp");
temp_path(path) == with_extension(path, "tmp")

\* name_str == "config.json" || name_str == "globalConfig.json"
IsConfigName(path) == path.ext = "json" /\ path.stem \in {"config", "globalConfig"}

\* The paths find_config_files can hand to a batch.
ScannerPaths == {p \in Paths : IsConfigName(p)}

\* -------------------------------------------------------------- variables
VARIABLES
    json_content,     \* text specification: the content update_vault_token is given
    once,             \* ... its result, <<"unset">> before the call
    twice,            \* ... the result of a second call on once
    token,            \* the replacement value (new_token)
    mode,             \* "text", "single" (one call of update_vault_token_in_file),
                      \* "parallel" (update_files_parallel), "sequential"
                      \* (update_vault_tokens_in_files), "scan"
                      \* (scan_files_parallel), "walk" (find_config_files)
    files,            \* the candidate list
    names,            \* directory entries: path -> 0 (absent), -1 (a directory), inode
    inodes,           \* inode -> content
    pc,               \* per call of update_vault_token_in_file: where it stands
    updated_content,  \* per call: its local updated_content
    fd,               \* per call: the inode its open temporary file refers to
    off,              \* per call: the bytes of updated_content already written
    short,            \* per call: short writes so far
    result,           \* per call: "none", "Ok", "Err"
    phase,            \* coordinator: "map", "reduce", "returned"
    cur,              \* coordinator: index of the entry being reduced or iterated
    stats,            \* UpdateStats
    names0, inodes0,  \* history: the filesystem before the run
    matched,          \* history, per call: matches of the pattern in what it read (-1: none read)
    persisted,        \* history, per call: its rename replaced the target
    found,            \* per call of scan_vault_tokens_in_file: the count it returned
    tree,             \* the directory tree find_config_files walks: node -> kind
    pending,          \* the walker: entries found and not yet yielded, next first
    config_files,     \* find_config_files: its local config_files
    walk              \* find_config_files: "off", "walking", "Ok", "Err"

vars == <<json_content, once, twice, token, mode, files, names, inodes, pc,
          updated_content, fd, off, short, result, phase, cur, stats,
          names0, inodes0, matched, persisted, found, tree, pending,
          config_files, walk>>

textVars == <<json_content, once, twice>>
fsVars == <<names, inodes>>
callVars == <<pc, updated_content, fd, off, short, result, matched, persisted, found>>
coordVars == <<phase, cur, stats>>
constVars == <<token, mode, files, names0, inodes0>>
walkVars == <<tree, pending, config_files, walk>>

Unset == <<"unset">>

\* UpdateStats::new()
NewStats == [files_processed |-> 0, files_updated |-> 0, tokens_replaced |-> 0,
             errors |-> <<>>]

\* ------------------------------------------------------- text specification
FieldTight == <<Q, KEY, Q, ":", Q, "a", Q>>
FieldLoose == <<Q, KEY, Q, " ", ":", "\n", Q, "b", Q>>

Pieces == {FieldTight, FieldLoose, <<Q, KEY, Q>>, <<":">>, <<" ">>, <<Q>>, <<"a">>}

TextContents ==
    {Flatten(ps) : ps \in UNION {[1..n -> Pieces] : n \in 0..MaxPieces}}

\* Replacement values: plain, empty, with a dollar sign, with a double quote.
TextTokens ==
    {<<"n">>, <<>>, <<"n", "$", "a">>, <<"$", "0">>, <<"$", "$">>, <<"n", Q>>}

NoCalls == [i \in {} |-> 0]

\* No directory walk is part of the run.
NoWalk ==
    /\ tree = [n \in {} |-> "absent"]
    /\ pending = <<>>
    /\ config_files = <<>>
    /\ walk = "off"

InitText ==
    /\ mode = "text"
    /\ json_content \in TextContents
    /\ token \in TextTokens
    /\ once = Unset
    /\ twice = Unset
    /\ files = <<>>
    /\ names = [p \in Paths |-> 0]
    /\ inodes = <<>>
    /\ names0 = names
    /\ inodes0 = inodes
    /\ pc = NoCalls /\ updated_content = NoCalls /\ fd = NoCalls /\ off = NoCalls
    /\ short = NoCalls /\ result = NoCalls /\ matched = NoCalls /\ persisted = NoCalls
    /\ found = NoCalls
    /\ NoWalk
    /\ phase = "returned"
    /\ cur = 1
    /\ stats = NewStats

\* update_vault_token(json_content, token)
ApplyOnce ==
    /\ mode = "text"
    /\ once = Unset
    /\ once' = update_vault_token(json_content, token)
    /\ UNCHANGED <<json_content, twice, fsVars, callVars, coordVars, constVars, walkVars>>

\* update_vault_token(once, token): the call repeated on its own result
ApplyTwice ==
    /\ mode = "text"
    /\ once # Unset
    /\ twice = Unset
    /\ twice' = update_vault_token(once, token)
    /\ UNCHANGED <<json_content, once, fsVars, callVars, coordVars, constVars, walkVars>>

NextText == ApplyOnce \/ ApplyTwice

SpecText == InitText /\ [][NextText]_vars

\* ------------------------------------------------- filesystem, before a run
NoField == <<"{", Q, "a", Q, "}">>
TwoFields == <<"{">> \o FieldLoose \o <<",">> \o FieldTight \o <<"}">>
\* A file a previous run with the value n has already updated.
Current == <<"{">> \o Replacement(<<"n">>) \o <<"}">>
InitContents == {NoField, TwoFields, Current}
\* What an unrelated file next to a candidate holds.
Stale == <<"s">>

Tokens == {<<"n">>, <<"n", "$", "a">>}

File(c) == [k |-> "file", c |-> c]
Dir == [k |-> "dir", c |-> <<>>]
Absent == [k |-> "absent", c |-> <<>>]

CandidateEntries == {File(c) : c \in InitContents} \cup {Dir, Absent}
SiblingEntries == {Absent, File(Stale)}

Range(f) == {f[x] : x \in DOMAIN f}

\* The directory layouts a run over the candidates cands can start from.
Layouts(cands) ==
    {L \in [Paths -> CandidateEntries \cup SiblingEntries] :
        \A p \in Paths :
            IF p \in cands THEN L[p] \in CandidateEntries
            ELSE IF p \in {temp_path(c) : c \in cands} THEN L[p] \in SiblingEntries
            ELSE L[p] = Absent}

IndexOf(p) == CHOOSE k \in 1..Len(PathOrder) : PathOrder[k] = p
InoOf(L, k) == Cardinality({j \in 1..k : L[PathOrder[j]].k = "file"})
NamesOf(L) ==
    [p \in Paths |-> IF L[p].k = "file" THEN InoOf(L, IndexOf(p))
                     ELSE IF L[p].k = "dir" THEN -1 ELSE 0]
InodesOf(L) ==
    [n \in 1..InoOf(L, Len(PathOrder)) |->
        L[PathOrder[CHOOSE k \in 1..Len(PathOrder) :
                        L[PathOrder[k]].k = "file" /\ InoOf(L, k) = n]].c]

CandidateLists(m) ==
    IF m = "single" THEN {<<p>> : p \in Paths}
    ELSE UNION {[1..n -> ScannerPaths] : n \in 0..MaxFiles}

\* Scan mode is given no replacement value.
NoToken == <<>>

Init ==
    /\ mode \in {"single", "parallel", "sequential", "scan"}
    /\ files \in CandidateLists(mode)
    /\ token \in (IF mode = "scan" THEN {NoToken} ELSE Tokens)
    /\ \E L \in Layouts(Range(files)) :
          /\ names = NamesOf(L)
          /\ inodes = InodesOf(L)
    /\ names0 = names
    /\ inodes0 = inodes
    /\ pc = [i \in 1..Len(files) |-> IF mode = "sequential" THEN "wait" ELSE "read"]
    /\ updated_content = [i \in 1..Len(files) |-> <<>>]
    /\ fd = [i \in 1..Len(files) |-> 0]
    /\ off = [i \in 1..Len(files) |-> 0]
    /\ short = [i \in 1..Len(files) |-> 0]
    /\ result = [i \in 1..Len(files) |-> "none"]
    /\ matched = [i \in 1..Len(files) |-> -1]
    /\ persisted = [i \in 1..Len(files) |-> FALSE]
    /\ found = [i \in 1..Len(files) |-> 0]
    /\ NoWalk
    /\ phase = "map"
    /\ cur = 1
    /\ stats = NewStats
    /\ json_content = <<>>
    /\ once = Unset
    /\ twice = Unset

\* ------------------------------------------- update_vault_token_in_file
Calls == 1..Len(files)

\* Faulty variant of MapCall: the scan's map calls the updating function too.
MapCallUpdate(m) == "update"

\* What a coordinator calls for an entry: scan_files_parallel calls
\* scan_vault_tokens_in_file, the others update_vault_token_in_file.
MapCall(m) == IF m = "scan" THEN "scan" ELSE "update"

\* A call may take a step: every call of a parallel map, the call of the
\* entry the sequential loop stands at, the one call of a single run.
\* The process may be terminated at any point: that is a behaviour that
\* stutters from there on, and leaves the filesystem as that state has it.
Running(i) ==
    /\ phase = "map"
    /\ MapCall(mode) = "update"
    /\ mode = "sequential" => cur = i

\* The number of matches update_vault_token replaces in s.
RECURSIVE MatchCount(_, _)
MatchCount(s, i) ==
    IF i > Len(s) THEN 0
    ELSE LET e == MatchEnd(s, i) IN
         IF e > 0 THEN 1 + MatchCount(s, e + 1) ELSE MatchCount(s, i + 1)

\* Faulty variant of NeedsWrite: the comparison dropped, every file is rewritten.
NeedsWriteAlways(updated, original) == TRUE

\* if updated_content != original_content
NeedsWrite(updated, original) == updated # original

\* The call returns r; its locals and its open file are gone.
Finish(i, r) ==
    /\ pc' = [pc EXCEPT ![i] = "done"]
    /\ result' = [result EXCEPT ![i] = r]
    /\ updated_content' = [updated_content EXCEPT ![i] = <<>>]
    /\ fd' = [fd EXCEPT ![i] = 0]
    /\ off' = [off EXCEPT ![i] = 0]
    /\ short' = [short EXCEPT ![i] = 0]

\* fs::read_to_string(path)?, update_vault_token(..)?, and the comparison.
Read(i) ==
    /\ Running(i)
    /\ pc[i] = "read"
    /\ IF names[files[i]] > 0
       THEN LET original == inodes[names[files[i]]]
                updated == update_vault_token(original, token)
            IN /\ matched' = [matched EXCEPT ![i] = MatchCount(original, 1)]
               /\ IF NeedsWrite(updated, original)
                  THEN /\ updated_content' = [updated_content EXCEPT ![i] = updated]
                       /\ pc' = [pc EXCEPT ![i] = "open"]
                       /\ UNCHANGED <<result, fd, off, short>>
                  ELSE Finish(i, "Ok")
       ELSE /\ Finish(i, "Err")
            /\ UNCHANGED matched
    /\ UNCHANGED <<fsVars, persisted, found, coordVars, constVars, textVars, walkVars>>

\* fs::write(&temp_path, ..): File::create opens the path, creating the file
\* or truncating the one that is there.
OpenTemp(i) ==
    /\ Running(i)
    /\ pc[i] = "open"
    /\ LET t == temp_path(files[i]) IN
       IF names[t] = -1
       THEN /\ Finish(i, "Err")
            /\ UNCHANGED fsVars
       ELSE /\ pc' = [pc EXCEPT ![i] = "write"]
            /\ UNCHANGED <<result, updated_content, off, short>>
            /\ IF names[t] > 0
               THEN /\ inodes' = [inodes EXCEPT ![names[t]] = <<>>]
                    /\ fd' = [fd EXCEPT ![i] = names[t]]
                    /\ UNCHANGED names
               ELSE /\ inodes' = Append(inodes, <<>>)
                    /\ names' = [names EXCEPT ![t] = Len(inodes) + 1]
                    /\ fd' = [fd EXCEPT ![i] = Len(inodes) + 1]
    /\ UNCHANGED <<matched, persisted, found, coordVars, constVars, textVars, walkVars>>

Max(a, b) == IF a >= b THEN a ELSE b

\* A write of data at offset o of a file holding c; a gap reads as NUL.
WriteAt(c, o, data) ==
    [k \in 1..Max(Len(c), o + Len(data)) |->
        IF k > o /\ k <= o + Len(data) THEN data[k - o]
        ELSE IF k <= Len(c) THEN c[k] ELSE "NUL"]

\* fs::write(&temp_path, ..): write_all's loop, one write call a step; a
\* write call takes the rest of the buffer, or only half of it.  The file is
\* closed after the last one.
WriteChunk(i) ==
    /\ Running(i)
    /\ pc[i] = "write"
    /\ LET rest == Len(updated_content[i]) - off[i] IN
       \E n \in {rest} \cup {h \in {rest \div 2} : h >= 1 /\ short[i] < MaxShortWrites} :
          /\ inodes' = [inodes EXCEPT ![fd[i]] =
                           WriteAt(@, off[i], SubSeq(updated_content[i], off[i] + 1, off[i] + n))]
          /\ IF n = rest
             THEN /\ pc' = [pc EXCEPT ![i] = "rename"]
                  /\ fd' = [fd EXCEPT ![i] = 0]
                  /\ off' = [off EXCEPT ![i] = 0]
                  /\ short' = [short EXCEPT ![i] = 0]
                  /\ updated_content' = [updated_content EXCEPT ![i] = <<>>]
             ELSE /\ off' = [off EXCEPT ![i] = @ + n]
                  /\ short' = [short EXCEPT ![i] = @ + 1]
                  /\ UNCHANGED <<pc, fd, updated_content>>
    /\ UNCHANGED <<names, result, matched, persisted, found, coordVars, constVars, textVars, walkVars>>

\* fs::write(&temp_path, ..)?: the open is refused, or a write call fails (the
\* disk is full); what was written stays.
WriteFail(i) ==
    /\ Running(i)
    /\ pc[i] \in {"open", "write"}
    /\ Finish(i, "Err")
    /\ UNCHANGED <<fsVars, matched, persisted, found, coordVars, constVars, textVars, walkVars>>

\* fs::rename(&temp_path, path)?
Rename(i) ==
    /\ Running(i)
    /\ pc[i] = "rename"
    /\ LET t == temp_path(files[i]) IN
       IF names[t] <= 0 \/ names[files[i]] = -1
       THEN /\ Finish(i, "Err")
            /\ UNCHANGED <<names, persisted>>
       ELSE /\ Finish(i, "Ok")
            /\ names' = [names EXCEPT ![t] = 0, ![files[i]] = names[t]]
            /\ persisted' = [persisted EXCEPT ![i] = TRUE]
    /\ UNCHANGED <<inodes, matched, found, coordVars, constVars, textVars, walkVars>>

\* fs::rename(&temp_path, path)?: the rename is refused.
RenameFail(i) ==
    /\ Running(i)
    /\ pc[i] = "rename"
    /\ Finish(i, "Err")
    /\ UNCHANGED <<fsVars, matched, persisted, found, coordVars, constVars, textVars, walkVars>>

\* ---------------------------------------------- the field pattern, stated
\* An occurrence of the field pattern in s from i to j: the quoted literal
\* vaultToken, optional whitespace, a colon, optional whitespace, and a
\* double-quoted string without a double quote inside.
IsOccurrence(s, i, j) ==
    /\ 1 <= i /\ j <= Len(s) /\ i + 2 < j
    /\ s[i] = Q /\ s[i + 1] = KEY /\ s[i + 2] = Q
    /\ s[j] = Q
    /\ \E c \in {k \in (i + 3)..j : s[k] = ":"} :
          /\ \A k \in (i + 3)..(c - 1) : IsSpace(s[k])
          /\ \E q \in {k \in (c + 1)..(j - 1) : s[k] = Q} :
                /\ \A k \in (c + 1)..(q - 1) : IsSpace(s[k])
                /\ \A k \in (q + 1)..(j - 1) : s[k] # Q

\* Where the quoted field name stands in s.
KeyStarts(s) ==
    {i \in 1..(Len(s) - 2) : s[i] = Q /\ s[i + 1] = KEY /\ s[i + 2] = Q}

Occurrences(s) ==
    {o \in KeyStarts(s) \X (1..Len(s)) : IsOccurrence(s, o[1], o[2])}

\* The non-overlapping occurrences, taken from the left: no two overlap, and an
\* occurrence is left out only when it starts inside one that started earlier.
Spans(s) ==
    CHOOSE S \in SUBSET Occurrences(s) :
        /\ \A a \in S : \A b \in S : a # b => (a[2] < b[1] \/ b[2] < a[1])
        /\ \A o \in Occurrences(s) \ S :
              \E a \in S : a[1] < o[1] /\ o[1] <= a[2]

InSpan(S, p) == \E o \in S : o[1] <= p /\ p <= o[2]

\* ------------------------------------------------ scan_vault_tokens_in_file
\* The count of matches in a content: the number of non-overlapping
\* occurrences of the field pattern, taken from the left.
scan_vault_tokens(content) == Cardinality(Spans(content))

\* scan_vault_tokens_in_file(path): the content is read and the matches are
\* counted; a path that cannot be read is an error.  Nothing is written.
ScanFile(i) ==
    /\ phase = "map"
    /\ MapCall(mode) = "scan"
    /\ pc[i] = "read"
    /\ IF names[files[i]] > 0
       THEN /\ Finish(i, "Ok")
            /\ found' = [found EXCEPT ![i] = scan_vault_tokens(inodes[names[files[i]]])]
       ELSE /\ Finish(i, "Err")
            /\ UNCHANGED found
    /\ UNCHANGED <<fsVars, matched, persisted, coordVars, constVars, textVars, walkVars>>

\* ----------------------------------------------------------- coordinators
\* Faulty variant of SeqBegin: the entry is not counted as processed.
SeqBeginNoCount(i) ==
    /\ mode = "sequential"
    /\ phase = "map"
    /\ cur = i
    /\ pc[i] = "wait"
    /\ pc' = [pc EXCEPT ![i] = "read"]
    /\ UNCHANGED <<fsVars, updated_content, fd, off, short, result, matched,
                   persisted, found, coordVars, constVars, textVars, walkVars>>

\* update_vault_tokens_in_files: the loop reaches an entry.
SeqBegin(i) ==
    /\ mode = "sequential"
    /\ phase = "map"
    /\ cur = i
    /\ pc[i] = "wait"
    /\ pc' = [pc EXCEPT ![i] = "read"]
    /\ stats' = [stats EXCEPT !.files_processed = @ + 1]
    /\ UNCHANGED <<fsVars, updated_content, fd, off, short, result, matched,
                   persisted, found, phase, cur, constVars, textVars, walkVars>>

\* Faulty variant of Collect: the reduction starts without waiting for the
\* worker tasks.
CollectEarly ==
    /\ mode = "parallel"
    /\ phase = "map"
    /\ phase' = "reduce"
    /\ stats' = [NewStats EXCEPT !.files_processed = Len(files)]
    /\ UNCHANGED <<fsVars, callVars, cur, constVars, textVars, walkVars>>

\* update_files_parallel: collect() has every result; the reduction starts.
Collect ==
    /\ mode = "parallel"
    /\ phase = "map"
    /\ \A i \in Calls : pc[i] = "done"
    /\ phase' = "reduce"
    /\ stats' = [NewStats EXCEPT !.files_processed = Len(files)]
    /\ UNCHANGED <<fsVars, callVars, cur, constVars, textVars, walkVars>>

\* Faulty variant of Fold: a successful call is counted as an update without
\* the file being read back.
FoldNoReadBack(st, i) ==
    IF result[i] = "Ok"
    THEN [st EXCEPT !.files_updated = @ + 1]
    ELSE [st EXCEPT !.errors = Append(@, [path |-> files[i]])]

\* One result folded into the statistics: the match arm of either coordinator.
Fold(st, i) ==
    IF result[i] = "Ok"
    THEN IF names[files[i]] > 0
         THEN LET n == token_count(inodes[names[files[i]]], token) IN
              IF n > 0
              THEN [st EXCEPT !.files_updated = @ + 1, !.tokens_replaced = @ + n]
              ELSE st
         ELSE st
    ELSE [st EXCEPT !.errors = Append(@, [path |-> files[i]])]

Reduce(i) ==
    /\ cur = i
    /\ pc[i] = "done"
    /\ \/ mode = "parallel" /\ phase = "reduce"
       \/ mode = "sequential" /\ phase = "map"
    /\ stats' = Fold(stats, i)
    /\ cur' = i + 1
    /\ UNCHANGED <<fsVars, callVars, phase, constVars, textVars, walkVars>>

\* ScanStats::new()
NewScanStats == [files_scanned |-> 0, files_with_tokens |-> 0,
                 total_tokens_found |-> 0, errors |-> <<>>]

\* scan_files_parallel: collect() has every result; the reduction starts.
ScanCollect ==
    /\ mode = "scan"
    /\ phase = "map"
    /\ \A i \in Calls : pc[i] = "done"
    /\ phase' = "reduce"
    /\ stats' = [NewScanStats EXCEPT !.files_scanned = Len(files)]
    /\ UNCHANGED <<fsVars, callVars, cur, constVars, textVars, walkVars>>

\* scan_files_parallel: one result folded into the scan statistics.
ScanFold(st, i) ==
    IF result[i] = "Ok"
    THEN IF found[i] > 0
         THEN [st EXCEPT !.files_with_tokens = @ + 1,
                         !.total_tokens_found = @ + found[i]]
         ELSE st
    ELSE [st EXCEPT !.errors = Append(@, [path |-> files[i]])]

ScanReduce(i) ==
    /\ mode = "scan"
    /\ phase = "reduce"
    /\ cur = i
    /\ stats' = ScanFold(stats, i)
    /\ cur' = i + 1
    /\ UNCHANGED <<fsVars, callVars, phase, constVars, textVars, walkVars>>

\* Ok(stats)
ScanReturn ==
    /\ mode = "scan"
    /\ phase = "reduce"
    /\ cur > Len(files)
    /\ phase' = "returned"
    /\ UNCHANGED <<fsVars, callVars, cur, stats, constVars, textVars, walkVars>>

\* Ok(stats) / stats
Return ==
    /\ \/ mode = "parallel" /\ phase = "reduce"
       \/ mode = "sequential" /\ phase = "map"
    /\ cur > Len(files)
    /\ phase' = "returned"
    /\ UNCHANGED <<fsVars, callVars, cur, stats, constVars, textVars, walkVars>>

Next ==
    \/ \E i \in Calls : Read(i)
    \/ \E i \in Calls : OpenTemp(i)
    \/ \E i \in Calls : WriteChunk(i)
    \/ \E i \in Calls : WriteFail(i)
    \/ \E i \in Calls : Rename(i)
    \/ \E i \in Calls : RenameFail(i)
    \/ \E i \in Calls : SeqBegin(i)
    \/ Collect
    \/ \E i \in Calls : Reduce(i)
    \/ Return
    \/ \E i \in Calls : ScanFile(i)
    \/ ScanCollect
    \/ \E i \in Calls : ScanReduce(i)
    \/ ScanReturn

Spec == Init /\ [][Next]_vars

RECURSIVE SumOver(_, _, _)
\* The sum of grow[o] over the spans of S that end before position p.
SumOver(S, p, grow) ==
    IF S = {} THEN 0
    ELSE LET o == CHOOSE x \in S : TRUE IN
         (IF o[2] < p THEN grow[o] ELSE 0) + SumOver(S \ {o}, p, grow)

\* By how much each span grows when it is replaced by what the code writes ...
GrowthWritten(s, S, tok) ==
    [o \in S |-> Len(ReplaceMatch(Replacement(tok), SubSeq(s, o[1], o[2])))
                 - (o[2] - o[1] + 1)]
\* ... and when it is replaced by the canonical text "vaultToken": "tok".
GrowthCanonical(S, tok) ==
    [o \in S |-> Len(Replacement(tok)) - (o[2] - o[1] + 1)]

\* C8: idempotence: applying update_vault_token to its own result, with the
\* same replacement value, changes nothing.
C8_Idempotent == twice # Unset => twice = once

\* C9: structural preservation: with S the N non-overlapping occurrences of
\* the field pattern in the content, every symbol outside the spans of S is
\* found unchanged in the result, at its position moved by the growth of the
\* spans before it; the result is as long as the content plus the growth of
\* the N spans; and for N = 0 the result is the content.
C9_StructurePreserved ==
    once # Unset =>
        LET S == Spans(json_content)
            grow == GrowthWritten(json_content, S, token)
        IN /\ \A p \in 1..Len(json_content) :
                 ~InSpan(S, p) =>
                    LET r == p + SumOver(S, p, grow) IN
                    r \in 1..Len(once) /\ once[r] = json_content[p]
           /\ Len(once) = Len(json_content) + SumOver(S, Len(json_content) + 1, grow)
           /\ (S = {} => once = json_content)

\* C9's case: two occurrences were replaced and text outside them was kept.
C9_Witness ==
    /\ once # Unset
    /\ Cardinality(Spans(json_content)) >= 2
    /\ \E p \in 1..Len(json_content) : ~InSpan(Spans(json_content), p)
    /\ once # json_content

\* C10: every matched span is replaced by exactly "vaultToken": "v", the
\* replacement value v verbatim, one space after the colon and none before.
C10_CanonicalVerbatim ==
    once # Unset =>
        LET S == Spans(json_content)
            grow == GrowthCanonical(S, token)
            canon == Replacement(token)
        IN \A o \in S :
              LET r == o[1] + SumOver(S, o[1], grow) IN
              /\ r + Len(canon) - 1 <= Len(once)
              /\ SubSeq(once, r, r + Len(canon) - 1) = canon

\* ------------------------------------------------- files, before and now
WasFile(p) == names0[p] > 0
Original(p) == inodes0[names0[p]]

\* The path holds the complete content it held before the run.
Intact(p) == names[p] > 0 /\ inodes[names[p]] = Original(p)
\* The path holds the complete updated content.
Rewritten(p) ==
    names[p] > 0 /\ inodes[names[p]] = update_vault_token(Original(p), token)

Distinct(fs) == \A i \in 1..Len(fs) : \A j \in 1..Len(fs) : i # j => fs[i] # fs[j]

Batch == mode \in {"parallel", "sequential"}

RECURSIVE SumMatched(_)
SumMatched(S) ==
    IF S = {} THEN 0
    ELSE LET i == CHOOSE x \in S : TRUE IN matched[i] + SumMatched(S \ {i})

\* C1: during one call of update_vault_token_in_file the target path holds
\* the complete original content or the complete updated content at every
\* point of the call.
C1_SingleCallAtomic ==
    mode = "single" /\ WasFile(files[1]) =>
        Intact(files[1]) \/ Rewritten(files[1])

\* C2 as stated: in a parallel batch, for every candidate list, duplicates
\* included, every candidate path holds its complete original content or the
\* complete updated content in every reachable state.
C2_NoHalfWritten ==
    mode = "parallel" =>
        \A i \in Calls : WasFile(files[i]) =>
            Intact(files[i]) \/ Rewritten(files[i])

\* C2 amended: the same for candidate lists in which no path occurs more than
\* once.
C2_DistinctNoHalfWritten ==
    mode = "parallel" /\ Distinct(files) =>
        \A i \in Calls : WasFile(files[i]) =>
            Intact(files[i]) \/ Rewritten(files[i])

\* C2's case: two calls on two files at once, one half-way through writing its
\* temporary file while the other has already renamed its own over the target.
C2_Witness ==
    /\ mode = "parallel"
    /\ Len(files) = 2 /\ files[1] # files[2]
    /\ pc[1] = "write" /\ off[1] > 0
    /\ persisted[2] /\ Rewritten(files[2]) /\ ~Intact(files[2])
    /\ Intact(files[1])

\* C3: a failed candidate leaves the batch complete: one error entry per
\* failed candidate, naming its path, and every other candidate that held a
\* field is updated and counted in files_updated and tokens_replaced.
C3_FailureIsolation ==
    Batch /\ phase = "returned" =>
        LET failed == {i \in Calls : result[i] = "Err"}
            good == {i \in Calls : result[i] = "Ok" /\ matched[i] >= 1}
        IN /\ \A i \in Calls : pc[i] = "done"
           /\ Len(stats.errors) = Cardinality(failed)
           /\ \A i \in failed :
                 \E k \in 1..Len(stats.errors) : stats.errors[k].path = files[i]
           /\ \A i \in good : Rewritten(files[i])
           /\ stats.files_updated >= Cardinality(good)
           /\ stats.tokens_replaced >= SumMatched(good)

\* C4: the statistics say what was written: files_updated counts the
\* candidates in which an occurrence was replaced and whose new content was
\* renamed over the original, tokens_replaced sums the occurrences replaced in
\* those, and an untouched file adds to neither.
C4_StatsMatchDisk ==
    Batch /\ phase = "returned" =>
        LET written == {i \in Calls : persisted[i] /\ matched[i] >= 1} IN
        /\ stats.files_updated = Cardinality(written)
        /\ stats.tokens_replaced = SumMatched(written)

\* C5: every candidate is exactly one of Updated, Unchanged and Failed, and
\* files_processed = files_updated + Unchanged + len(errors) = the length of
\* the candidate list.
C5_OutcomePartition ==
    Batch /\ phase = "returned" =>
        LET updated == {i \in Calls : result[i] = "Ok" /\ matched[i] >= 1 /\ persisted[i]}
            unchanged == {i \in Calls : result[i] = "Ok" /\ matched[i] = 0 /\ ~persisted[i]}
            failed == {i \in Calls : result[i] = "Err"}
        IN /\ updated \cup unchanged \cup failed = Calls
           /\ updated \cap unchanged = {} /\ updated \cap failed = {}
           /\ unchanged \cap failed = {}
           /\ stats.files_processed =
                 stats.files_updated + Cardinality(unchanged) + Len(stats.errors)
           /\ stats.files_processed = Len(files)

\* C6: when the substitution changes nothing, the call writes nothing: no
\* temporary file, no rename, every directory entry and every file as before.
C6_UnchangedNoWrite ==
    /\ mode = "single"
    /\ WasFile(files[1])
    /\ update_vault_token(Original(files[1]), token) = Original(files[1])
    => names = names0 /\ inodes = inodes0

\* C6's case: the call has returned Ok on a file whose every occurrence was
\* already in canonical form with the same value.
C6_Witness ==
    /\ mode = "single"
    /\ pc[1] = "done" /\ result[1] = "Ok"
    /\ matched[1] >= 1
    /\ ~persisted[1]

\* C7: when the call returns an error, the target path is as it was before
\* the call.
C7_ErrorLeavesOriginal ==
    mode = "single" /\ result[1] = "Err" =>
        /\ names[files[1]] = names0[files[1]]
        /\ WasFile(files[1]) => Intact(files[1])

RECURSIVE SumOf(_, _)
\* The sum of f[i] over the calls i of S.
SumOf(S, f) ==
    IF S = {} THEN 0
    ELSE LET i == CHOOSE x \in S : TRUE IN f[i] + SumOf(S \ {i}, f)

\* What scan mode returns for the file each candidate was before the run.
ScanCountBefore ==
    [i \in Calls |-> IF WasFile(files[i]) THEN scan_vault_tokens(Original(files[i]))
                     ELSE 0]

\* C11: count accuracy: the count scan mode returns for a file is the number
\* of spans update mode replaces in the same file, and update mode adds that
\* number to tokens_replaced for the file: over a batch of distinct files,
\* tokens_replaced is the sum of the scan counts of the files whose update
\* succeeded.
C11_CountAccuracy ==
    /\ mode = "scan" =>
          \A i \in Calls : result[i] = "Ok" =>
              found[i] = MatchCount(Original(files[i]), 1)
    /\ Batch /\ phase = "returned" /\ Distinct(files) =>
          stats.tokens_replaced =
              SumOf({i \in Calls : result[i] = "Ok"}, ScanCountBefore)

\* The occurrence o of the field in s has the value v between its quotes.
CarriesValue(s, o, v) ==
    LET q == o[2] - Len(v) - 1 IN
    /\ q > o[1] + 2
    /\ SubSeq(s, q, o[2]) = <<Q>> \o v \o <<Q>>

\* C12: after update_vault_token_in_file has returned Ok, the target is a
\* file, every occurrence of the field in it has the new value, and the
\* temporary path holds nothing the call has put there: it is absent, or it is
\* the untouched file that was there before the call.
C12_AfterSuccess ==
    mode = "single" /\ result[1] = "Ok" =>
        LET p == files[1]
            t == temp_path(p)
        IN /\ names[p] > 0
           /\ \A o \in Occurrences(inodes[names[p]]) :
                 CarriesValue(inodes[names[p]], o, token)
           /\ t # p =>
                 \/ names[t] = 0
                 \/ /\ names[t] = names0[t]
                    /\ inodes[names[t]] = inodes0[names0[t]]

\* What a successful call on candidate i leaves at its path, and what the
\* read-back then counts in it.
OutcomeContent(i) == update_vault_token(Original(files[i]), token)
OutcomeCount ==
    [i \in Calls |-> IF WasFile(files[i]) THEN token_count(OutcomeContent(i), token)
                     ELSE 0]

\* The totals that the per-file outcomes fix: every candidate processed, an
\* error for every failed call and for no other, and the successful calls
\* whose file holds the new value counted with their occurrences.
TotalsFixed ==
    LET ok == {i \in Calls : result[i] = "Ok"}
        failed == {i \in Calls : result[i] = "Err"}
        counted == {i \in ok : OutcomeCount[i] > 0}
    IN /\ stats.files_processed = Len(files)
       /\ stats.files_updated = Cardinality(counted)
       /\ stats.tokens_replaced = SumOf(counted, OutcomeCount)
       /\ Len(stats.errors) = Cardinality(failed)
       /\ {stats.errors[k].path : k \in 1..Len(stats.errors)} = {files[i] : i \in failed}

\* C13: for a candidate list of distinct files, the totals update_files_parallel
\* returns are fixed by the initial contents and the per-file outcomes, whatever
\* the order in which the worker tasks ran and completed.
C13_TotalsDeterministic ==
    mode = "parallel" /\ phase = "returned" /\ Distinct(files) => TotalsFixed

\* C13's case: a parallel batch of two distinct files has returned, one call
\* failed and the other rewrote its file.
C13_Witness ==
    /\ mode = "parallel" /\ phase = "returned"
    /\ Len(files) = 2 /\ files[1] # files[2]
    /\ \E i \in Calls : result[i] = "Err"
    /\ \E i \in Calls : persisted[i] /\ stats.tokens_replaced = 2

\* ------------------------------------------------------- find_config_files
\* A node of the directory tree is the sequence of the components of its path.
Root == <<"root">>
RootConfig == <<"root", "config.json">>
RootCapital == <<"root", "Config.json">>
RootOther == <<"root", "other.json">>
Sub == <<"root", "sub">>
SubGlobal == <<"root", "sub", "globalConfig.json">>
Nodes == {Root, RootConfig, RootCapital, RootOther, Sub, SubGlobal}

FileName(n) == n[Len(n)]
Parent(n) == SubSeq(n, 1, Len(n) - 1)

\* What a node is: absent, a regular file, a directory, a directory that
\* cannot be read, or a symbolic link to another node.
Kind(k) == [k |-> k, to |-> <<>>]
Link(n) == [k |-> "link", to |-> n]

KindsOf(n) ==
    IF n = Root THEN {Kind("absent"), Kind("dir")}
    ELSE IF n = RootConfig THEN {Kind("absent"), Kind("file"), Kind("dir")}
    ELSE IF n = Sub THEN {Kind("absent"), Kind("dir"), Kind("locked"), Link(Root)}
    ELSE IF n = SubGlobal
         THEN {Kind("absent"), Kind("file"), Link(RootConfig), Link(RootOther)}
    ELSE {Kind("absent"), Kind("file")}

\* The trees a walk can start from: an entry is in a directory.
Trees ==
    {t \in [Nodes -> UNION {KindsOf(n) : n \in Nodes}] :
        \A n \in Nodes :
            /\ t[n] \in KindsOf(n)
            /\ (n # Root /\ t[n].k # "absent") => t[Parent(n)].k \in {"dir", "locked"}}

\* Path::is_file and Path::exists: fs::metadata follows a symbolic link.
is_file(t, n) ==
    \/ t[n].k = "file"
    \/ t[n].k = "link" /\ t[t[n].to].k = "file"
exists(t, n) ==
    \/ t[n].k \in {"file", "dir", "locked"}
    \/ t[n].k = "link" /\ t[t[n].to].k # "absent"

\* The entries read_dir gives for a directory, in any order.
Entries(t, n) == {c \in Nodes \ {Root} : Parent(c) = n /\ t[c].k # "absent"}
Orders(S) ==
    {f \in [1..Cardinality(S) -> S] :
        \A a \in DOMAIN f : \A b \in DOMAIN f : a # b => f[a] # f[b]}

\* Faulty variant of name_matches: the name is compared without regard to case.
name_matches_nocase(name_str) ==
    name_str \in {"config.json", "Config.json", "globalConfig.json"}

\* name_str == "config.json" || name_str == "globalConfig.json"
name_matches(name_str) == name_str \in {"config.json", "globalConfig.json"}

InitWalk ==
    /\ mode = "walk"
    /\ tree \in Trees
    /\ pending = IF tree[Root].k = "absent" THEN <<>> ELSE <<Root>>
    /\ config_files = <<>>
    /\ walk = "walking"
    /\ token = NoToken
    /\ files = <<>>
    /\ names = [p \in Paths |-> 0]
    /\ inodes = <<>>
    /\ names0 = names
    /\ inodes0 = inodes
    /\ pc = NoCalls /\ updated_content = NoCalls /\ fd = NoCalls /\ off = NoCalls
    /\ short = NoCalls /\ result = NoCalls /\ matched = NoCalls /\ persisted = NoCalls
    /\ found = NoCalls
    /\ phase = "returned"
    /\ cur = 1
    /\ stats = NewStats
    /\ json_content = <<>>
    /\ once = Unset
    /\ twice = Unset

\* One turn of the loop over the walker: the walker yields its next entry,
\* depth first, and goes into it when it is a directory it can read (a link is
\* not gone into, an entry it cannot read is skipped); the entry is pushed
\* when it is a file by the name config.json or globalConfig.json.
WalkEntry ==
    /\ walk = "walking"
    /\ pending # <<>>
    /\ LET path == Head(pending) IN
       /\ config_files' =
             IF is_file(tree, path) /\ name_matches(FileName(path))
             THEN Append(config_files, path)
             ELSE config_files
       /\ IF tree[path].k = "dir"
          THEN \E o \in Orders(Entries(tree, path)) : pending' = o \o Tail(pending)
          ELSE pending' = Tail(pending)
    /\ UNCHANGED <<tree, walk, textVars, fsVars, callVars, coordVars, constVars>>

\* The walk is over: Err when the search path does not exist, Ok(config_files)
\* otherwise.
WalkReturn ==
    /\ walk = "walking"
    /\ pending = <<>>
    /\ walk' = IF ~exists(tree, Root) THEN "Err" ELSE "Ok"
    /\ UNCHANGED <<tree, pending, config_files, textVars, fsVars, callVars, coordVars,
                   constVars>>

NextWalk == WalkEntry \/ WalkReturn

SpecWalk == InitWalk /\ [][NextWalk]_vars

\* The paths find_config_files has returned.
Returned == {config_files[k] : k \in 1..Len(config_files)}

\* C14 as stated: for an existing root, find_config_files returns exactly the
\* regular files beneath the root whose name is exactly config.json or
\* globalConfig.json: every one of them, and nothing else.
C14_ScannerExact ==
    walk = "Ok" =>
        Returned = {n \in Nodes : /\ tree[n].k = "file"
                                  /\ FileName(n) \in {"config.json", "globalConfig.json"}}

\* Every directory above n is one the walk reads.
Reachable(n) == \A d \in 1..(Len(n) - 1) : tree[SubSeq(n, 1, d)].k = "dir"

\* C14 amended: every path returned has the name config.json or
\* globalConfig.json exactly and is a file to is_file, so nothing by another
\* name and no directory is returned; and every regular file by one of the two
\* names that lies in directories the walk can read is returned, once.
C14_ScannerExactReadable ==
    walk = "Ok" =>
        /\ \A n \in Returned :
              /\ FileName(n) \in {"config.json", "globalConfig.json"}
              /\ is_file(tree, n)
              /\ tree[n].k \notin {"dir", "locked", "absent"}
        /\ \A n \in Nodes :
              /\ tree[n].k = "file"
              /\ FileName(n) \in {"config.json", "globalConfig.json"}
              /\ Reachable(n)
              => Cardinality({k \in 1..Len(config_files) : config_files[k] = n}) = 1

\* C14's case: the walk has returned config.json of the root and
\* globalConfig.json of a subdirectory, and neither other.json nor Config.json,
\* both regular files of the root.
C14_Witness ==
    /\ walk = "Ok"
    /\ tree[RootOther].k = "file" /\ tree[RootCapital].k = "file"
    /\ tree[SubGlobal].k = "file"
    /\ Returned = {RootConfig, SubGlobal}

\* The node whose content a path gives: the target of a link, else the node.
Underlying(n) == IF tree[n].k = "link" THEN tree[n].to ELSE n

\* C15: no path find_config_files returns is a symbolic link or lies behind
\* one, and no two returned paths give the same underlying file.
C15_NoLinkReturned ==
    walk = "Ok" =>
        /\ \A n \in Returned :
              /\ tree[n].k # "link"
              /\ \A d \in 1..(Len(n) - 1) : tree[SubSeq(n, 1, d)].k # "link"
        /\ \A k \in 1..Len(config_files) : \A l \in 1..Len(config_files) :
              k # l => Underlying(config_files[k]) # Underlying(config_files[l])

\* C16: in scan mode nothing is written, for any candidate and under any
\* outcome: in every state of a scan, and so after scan_files_parallel has
\* returned, every directory entry and every file content is as before the
\* run, and no temporary file exists that was not there.
C16_ScanWritesNothing ==
    mode = "scan" => names = names0 /\ inodes = inodes0

\* C16's case: a scan of two candidates has returned, one with two fields
\* counted and one that could not be read.
C16_Witness ==
    /\ mode = "scan" /\ phase = "returned"
    /\ Len(files) = 2
    /\ stats.total_tokens_found = 2
    /\ Len(stats.errors) = 1

\* Every call of the map has returned.
AllCompleted == \A i \in Calls : pc[i] = "done" /\ result[i] \in {"Ok", "Err"}

\* A step of a parallel coordinator.
MapThenReduceStep ==
    mode \in {"parallel", "scan"} =>
        /\ DOMAIN pc = 1..Len(files)
        /\ (stats' # stats) => AllCompleted
        /\ (phase' # phase) => AllCompleted

\* C17: the parallel batch is a map followed by a reduce: there is one call
\* per entry of the candidate list, the statistics change only in steps taken
\* when every call has returned, and the batch returns only then.
C17_MapThenReduce == [][MapThenReduceStep]_vars

\* C17's case: the reduction of a parallel batch of two has folded the first
\* result into the statistics.
C17_Witness ==
    /\ mode = "parallel" /\ phase = "reduce"
    /\ Len(files) = 2 /\ cur = 2
    /\ stats.files_updated = 1
    /\ AllCompleted

\* C18: a batch update changes no file but its candidates: when the batch has
\* returned, every path that is not in the candidate list and was a file
\* before the run, a file next to a candidate included, is a file with the
\* content it had.
C18_OnlyCandidatesChanged ==
    Batch /\ phase = "returned" =>
        \A p \in Paths \ Range(files) : WasFile(p) => Intact(p)

\* The files that the per-file outcomes fix: a candidate whose call succeeded
\* holds the updated content and its temporary path is gone when there was
\* something to write and as before when there was not; a candidate whose
\* call failed is what it was before the run.
FilesFixed ==
    \A i \in Calls :
        LET p == files[i]
            t == temp_path(p)
        IN IF result[i] = "Ok"
           THEN /\ Rewritten(p)
                /\ IF OutcomeContent(i) # Original(p)
                   THEN names[t] = 0
                   ELSE names[t] = names0[t] /\ (WasFile(t) => Intact(t))
           ELSE /\ names[p] = names0[p]
                /\ WasFile(p) => Intact(p)

\* C19: over a candidate list of distinct paths, update_files_parallel and
\* update_vault_tokens_in_files end alike: whichever of the two has run, the
\* final file contents and files_processed, files_updated, tokens_replaced and
\* the number of errors are the same values, fixed by the filesystem before
\* the run, the replacement value and the per-file outcomes.
C19_ParallelAsSequential ==
    Batch /\ phase = "returned" /\ Distinct(files) => TotalsFixed /\ FilesFixed

\* C19's case: the sequential coordinator has returned from a batch of two
\* distinct files, one rewritten and counted, one failed.
C19_Witness ==
    /\ mode = "sequential" /\ phase = "returned"
    /\ Len(files) = 2 /\ files[1] # files[2]
    /\ stats.files_processed = 2
    /\ \E i \in Calls : persisted[i] /\ stats.tokens_replaced = 2
    /\ Len(stats.errors) = 1

====
